---- MODULE Spec2Model ----
(***************************************************************************)
(* A model of singlebase-py: the request dispatcher of client.py (Result,  *)
(* Client.request, Client.request_async, the async session) and the        *)
(* nested-dictionary library of lib.py (flatten_dict, unflatten_dict,      *)
(* dict_pick, dict_merge, dict_inspect_valid_keyname, json_loads).         *)
(***************************************************************************)
EXTENDS Integers, Sequences, FiniteSets, TLC

VARIABLES
  session,   \* Client._session: 0 for None, else the index of a ClientSession
  sessions,  \* every ClientSession created so far: "open" or "closed"
  sync,      \* the last call of Client.request, with what it returned
  tasks,     \* the request_async coroutines, each idle, awaiting or done
  arg,       \* library specifications: the arguments of the call
  mid,       \* library specifications: an intermediate value (the flat mapping)
  out,       \* library specifications: what the call returned or raised
  pc         \* library specifications: how far the calls have got

vars == <<session, sessions, sync, tasks, arg, mid, out, pc>>

(***************************************************************************)
(* Python values.  A value is a pair <<type, content>>.  A string is the   *)
(* sequence of its characters; a field name of the wire protocol ("data",  *)
(* "action") is written as one element.  A dict is the sequence of its     *)
(* entries [k, v] in insertion order, as Python keeps them.                *)
(***************************************************************************)
None == <<"none", <<>>>>

Num(n) == <<"int", n>>

Str(s) == <<"str", s>>

Arrow(s) == <<"arrow", s>>

List(l) == <<"list", l>>

Dict(d) == <<"dict", d>>

IsDict(v) == v[1] = "dict"

IsList(v) == v[1] = "list"

IsStr(v) == v[1] = "str"

Entry(k, v) == [k |-> k, v |-> v]

\* bool(v): what `v or default` tests
Truthy(v) ==
  CASE v[1] = "none" -> FALSE
    [] v[1] = "int" -> v[2] # 0
    [] v[1] = "bool" -> v[2]
    [] v[1] \in {"str", "list", "dict"} -> v[2] # <<>>
    [] OTHER -> TRUE

DictKeys(d) == {d[i].k : i \in DOMAIN d}

\* k in d
DictHas(d, k) == k \in DictKeys(d)

\* d[k], for a key that is there
DictGet(d, k) == d[CHOOSE i \in DOMAIN d : d[i].k = k].v

\* d.get(k): None when the key is absent
DictGetOrNone(d, k) == IF DictHas(d, k) THEN DictGet(d, k) ELSE None

\* d[k] = v: a key that is there keeps its place, a new one goes last
DictSet(d, k, v) ==
  IF DictHas(d, k)
    THEN [i \in DOMAIN d |-> IF d[i].k = k THEN Entry(k, v) ELSE d[i]]
    ELSE Append(d, Entry(k, v))

RECURSIVE DictUpdate(_, _)
\* d.update(e)
DictUpdate(d, e) ==
  IF e = <<>> THEN d ELSE DictUpdate(DictSet(d, e[1].k, e[1].v), Tail(e))

RECURSIVE ValEq(_, _)
\* a == b on values; the entries of d, e for DictEq: dicts compare without order
DictEq(d, e) ==
  /\ DictKeys(d) = DictKeys(e)
  /\ \A k \in DictKeys(d) : ValEq(DictGet(d, k), DictGet(e, k))

ValEq(a, b) ==
  IF a[1] # b[1] THEN FALSE
  ELSE IF a[1] = "dict" THEN DictEq(a[2], b[2])
  ELSE IF a[1] = "list"
    THEN Len(a[2]) = Len(b[2]) /\ \A i \in DOMAIN a[2] : ValEq(a[2][i], b[2][i])
  ELSE a[2] = b[2]

\* What a library call gives: a value returned, or an exception raised
Returned(v) == [ok |-> TRUE, val |-> v, exc |-> "", at |-> <<>>]

Raised(e, where) == [ok |-> FALSE, val |-> <<>>, exc |-> e, at |-> where]

(***************************************************************************)
(* lib.py: strings                                                         *)
(***************************************************************************)
Sep == "."

RECURSIVE LStrip(_)
LStrip(s) == IF s # <<>> /\ s[1] = Sep THEN LStrip(Tail(s)) ELSE s

RECURSIVE RStrip(_)
RStrip(s) ==
  IF s # <<>> /\ s[Len(s)] = Sep THEN RStrip(SubSeq(s, 1, Len(s) - 1)) ELSE s

\* s.strip(".")
Strip(s) == RStrip(LStrip(s))

\* sep.join([_str, k]).strip(sep)
JoinKey(str, k) == Strip(str \o <<Sep>> \o k)

RECURSIVE Split(_)
\* k.split(".")
Split(s) ==
  LET dots == {i \in DOMAIN s : s[i] = Sep}
  IN IF dots = {} THEN <<s>>
     ELSE LET i == CHOOSE j \in dots : \A m \in dots : j <= m
          IN <<SubSeq(s, 1, i - 1)>> \o Split(SubSeq(s, i + 1, Len(s)))

\* s.startswith(p)
StartsWith(s, p) == Len(p) <= Len(s) /\ SubSeq(s, 1, Len(p)) = p

(***************************************************************************)
(* lib.py: flatten_dict and unflatten_dict                                 *)
(***************************************************************************)
RECURSIVE flatten_dict(_, _)
\* [flatten_dict(item) if isinstance(item, dict) else item for item in v]
FlattenItems(l) ==
  [i \in DOMAIN l |->
    IF IsDict(l[i]) THEN Dict(flatten_dict(l[i][2], <<>>)) ELSE l[i]]

RECURSIVE FlattenLoop(_, _, _)
\* the loop of flatten_dict over _dict.items(), ret the ret_dict so far
FlattenLoop(d, str, ret) ==
  IF d = <<>> THEN ret
  ELSE LET k == d[1].k
           v == d[1].v
           next ==
             IF IsDict(v) THEN DictUpdate(ret, flatten_dict(v[2], JoinKey(str, k)))
             ELSE IF IsList(v)
               THEN DictSet(ret, JoinKey(str, k), List(FlattenItems(v[2])))
             ELSE DictSet(ret, JoinKey(str, k), v)
       IN FlattenLoop(Tail(d), str, next)

flatten_dict(d, str) == FlattenLoop(d, str, <<>>)

RECURSIVE SetPath(_, _, _)
\* _get_nested_default(d, path[:-1])[path[-1]] = value: setdefault walks and
\* creates the mappings of all but the last segment; a value on the way that
\* is no dict has no setdefault (AttributeError) or takes no item (TypeError)
SetPath(d, path, value) ==
  IF Len(path) = 1 THEN Returned(DictSet(d, path[1], value))
  ELSE LET k == path[1]
           child == IF DictHas(d, k) THEN DictGet(d, k) ELSE Dict(<<>>)
       IN IF ~IsDict(child) THEN Raised("TypeError", <<>>)
          ELSE LET r == SetPath(child[2], Tail(path), value)
               IN IF r.ok THEN Returned(DictSet(d, k, Dict(r.val))) ELSE r

\* a _set_nested that swallows the error and leaves the dict as it was
set_nested_silent(d, path, value, full_path) ==
  LET r == SetPath(d, path, value)
  IN IF r.ok THEN r ELSE Returned(d)

\* _set_nested: the error is raised again as an AttributeError naming full_path
set_nested(d, path, value, full_path) ==
  LET r == SetPath(d, path, value)
  IN IF r.ok THEN r ELSE Raised("AttributeError", full_path)

RECURSIVE unflatten_dict(_)
RECURSIVE UnflattenItems(_, _)
\* [unflatten_dict(i2) if isinstance(i2, dict) else i2 for i2 in v], done the
\* list built so far; the first item that raises ends it
UnflattenItems(l, done) ==
  IF l = <<>> THEN Returned(done)
  ELSE IF IsDict(l[1])
    THEN LET r == unflatten_dict(l[1][2])
         IN IF r.ok THEN UnflattenItems(Tail(l), Append(done, Dict(r.val)))
            ELSE r
  ELSE UnflattenItems(Tail(l), Append(done, l[1]))

RECURSIVE UnflattenLoop(_, _)
\* the loop of unflatten_dict over flatten_dict.items(), output the dict so far
UnflattenLoop(flat, output) ==
  IF flat = <<>> THEN Returned(output)
  ELSE LET k == flat[1].k
           v == flat[1].v
           path == Split(k)
           items == IF IsList(v) THEN UnflattenItems(v[2], <<>>) ELSE Returned(<<>>)
       IN IF ~items.ok THEN items
          ELSE LET r == set_nested(output, path,
                                   IF IsList(v) THEN List(items.val) ELSE v, k)
               IN IF r.ok THEN UnflattenLoop(Tail(flat), r.val) ELSE r

unflatten_dict(flat) == UnflattenLoop(flat, <<>>)

(***************************************************************************)
(* lib.py: dict_pick                                                       *)
(***************************************************************************)
\* a lookup that finds exact keys only, never the entries under a path
dict_pick_lookup_exact(fd, k) ==
  IF DictHas(fd, k) THEN <<Entry(k, DictGet(fd, k))>> ELSE <<>>

\* _dict_pick_lookup_dict: the entry of k itself, else the entries under k
dict_pick_lookup_dict(fd, k) ==
  IF DictHas(fd, k) THEN <<Entry(k, DictGet(fd, k))>>
  ELSE SelectSeq(fd, LAMBDA e : StartsWith(e.k, k \o <<Sep>>))

RECURSIVE dict_pick_merge_l2d(_, _)
\* _dict_pick_merge_l2d: the looked-up lists into one dict, df the dict so far
dict_pick_merge_l2d(iter, df) ==
  IF iter = <<>> THEN df
  ELSE dict_pick_merge_l2d(Tail(iter), DictUpdate(df, iter[1]))

\* a check_keys that checks nothing
MissingKeysUnchecked(fd, keys) == {}

\* for k in keys: assert k in fd: the first requested key that fd lacks
MissingKeys(fd, keys) == {i \in DOMAIN keys : ~DictHas(fd, keys[i])}

dict_pick(ddict, keys, check_keys) ==
  LET fd == flatten_dict(ddict, <<>>)
      missing == MissingKeys(fd, keys)
  IN IF check_keys /\ missing # {}
       THEN Raised("AssertionError",
                   keys[CHOOSE i \in missing : \A j \in missing : i <= j])
       ELSE unflatten_dict(dict_pick_merge_l2d(
              [i \in DOMAIN keys |-> dict_pick_lookup_dict(fd, keys[i])], <<>>))

(***************************************************************************)
(* lib.py: dict_merge                                                      *)
(***************************************************************************)
RECURSIVE KeysOf(_, _)
\* keys = keys.union(set(d)) over the dicts.  Python leaves the order of a set
\* open; the model walks the keys in the order of their first appearance, and
\* dicts compare without order (ValEq).
KeysOf(dicts, seen) ==
  IF dicts = <<>> THEN seen
  ELSE LET d == dicts[1]
           new == SelectSeq([i \in DOMAIN d |-> d[i].k],
                            LAMBDA k : \A j \in DOMAIN seen : seen[j] # k)
       IN KeysOf(Tail(dicts), seen \o new)

\* the values of a key from the last input to the first: the first one wins
ValuesAtReversed(dicts, key) ==
  LET has == SelectSeq(dicts, LAMBDA d : DictHas(d, key))
  IN [i \in DOMAIN has |-> DictGet(has[Len(has) + 1 - i], key)]

\* values = [d[key] for d in dicts if key in d]
ValuesAt(dicts, key) ==
  LET has == SelectSeq(dicts, LAMBDA d : DictHas(d, key))
  IN [i \in DOMAIN has |-> DictGet(has[i], key)]

\* maps = [value for value in values if isinstance(value, dict)]
MapsOf(values) == SelectSeq(values, IsDict)

RECURSIVE dict_merge(_)
RECURSIVE MergeLoop(_, _, _)
\* the loop of dict_merge over the keys, updated the result so far
MergeLoop(keys, dicts, updated) ==
  IF keys = <<>> THEN updated
  ELSE LET key == keys[1]
           values == ValuesAt(dicts, key)
           maps == MapsOf(values)
           merged ==
             IF maps # <<>>
               THEN Dict(dict_merge([i \in DOMAIN maps |-> maps[i][2]]))
               ELSE values[Len(values)]
       IN MergeLoop(Tail(keys), dicts, DictSet(updated, key, merged))

dict_merge(dicts) == MergeLoop(KeysOf(dicts, <<>>), dicts, <<>>)

(***************************************************************************)
(* lib.py: keyname_valid and dict_inspect_valid_keyname                    *)
(***************************************************************************)
Letters ==
  {"a", "b", "c", "d", "e", "f", "g", "h", "i", "j", "k", "l", "m",
   "n", "o", "p", "q", "r", "s", "t", "u", "v", "w", "x", "y", "z",
   "A", "B", "C", "D", "E", "F", "G", "H", "I", "J", "K", "L", "M",
   "N", "O", "P", "Q", "R", "S", "T", "U", "V", "W", "X", "Y", "Z"}

Digits == {"0", "1", "2", "3", "4", "5", "6", "7", "8", "9"}

\* [a-zA-Z\_\$]
HeadChars == Letters \cup {"_", "$"}

\* [a-zA-Z0-9\_\-\$]
TailChars == Letters \cup Digits \cup {"_", "-", "$"}

\* pattern.match(name) for ^[a-zA-Z\_\$][a-zA-Z0-9\_\-\$]*$ : Python's $ is
\* the end of the string, or the place before a newline that ends the string
PatternMatch(name) ==
  /\ name # <<>>
  /\ name[1] \in HeadChars
  /\ \E n \in 1..Len(name) :
       /\ \A i \in 2..n : name[i] \in TailChars
       /\ \/ n = Len(name)
          \/ n = Len(name) - 1 /\ name[Len(name)] = "\n"

\* keys are strings here, so isinstance(name, str) holds; `not name` is ""
keyname_valid(name) == IF name = <<>> THEN FALSE ELSE PatternMatch(name)

RECURSIVE dict_inspect_valid_keyname(_)
RECURSIVE InspectItems(_)
\* for l in v: if isinstance(l, dict): dict_inspect_valid_keyname(l)
InspectItems(l) ==
  IF l = <<>> THEN Returned(TRUE)
  ELSE IF IsDict(l[1])
    THEN LET r == dict_inspect_valid_keyname(l[1][2])
         IN IF r.ok THEN InspectItems(Tail(l)) ELSE r
  ELSE InspectItems(Tail(l))

\* each entry: the value is inspected first, then the key itself is tested
dict_inspect_valid_keyname(obj) ==
  IF obj = <<>> THEN Returned(TRUE)
  ELSE LET k == obj[1].k
           v == obj[1].v
           inner == IF IsDict(v) THEN dict_inspect_valid_keyname(v[2])
                    ELSE IF IsList(v) THEN InspectItems(v[2])
                    ELSE Returned(TRUE)
       IN IF ~inner.ok THEN inner
          ELSE IF keyname_valid(k) = FALSE THEN Raised("NameError", k)
          ELSE dict_inspect_valid_keyname(Tail(obj))

(***************************************************************************)
(* lib.py: json_loads.  The text of a response is empty, is no JSON, or is *)
(* the JSON text of a document doc; loading it turns every string value of *)
(* an object that reads as an ISO timestamp into an Arrow value.           *)
(***************************************************************************)
Bool(b) == <<"bool", b>>

EmptyText == [form |-> "empty", doc |-> None]

GarbageText == [form |-> "garbage", doc |-> None]

JsonText(doc) == [form |-> "json", doc |-> doc]

IsoDate == <<"2022-08-13">>

\* _timestamp_valid: the strings datetime.fromisoformat accepts
timestamp_valid(s) == s \in {IsoDate}

RECURSIVE Deserialize(_)
\* json.loads(data, object_hook=cls._deserialize): the hook runs on every
\* object, and replaces its string values that are timestamps
Deserialize(v) ==
  IF IsDict(v)
    THEN Dict([i \in DOMAIN v[2] |->
           LET w == Deserialize(v[2][i].v)
           IN Entry(v[2][i].k,
                    IF IsStr(w) /\ timestamp_valid(w[2]) THEN Arrow(w[2]) ELSE w)])
  ELSE IF IsList(v) THEN List([i \in DOMAIN v[2] |-> Deserialize(v[2][i])])
  ELSE v

json_loads(text) ==
  IF text.form = "empty" THEN Returned(None)
  ELSE IF text.form = "garbage"
    THEN Raised("JSONDecodeError", <<"Expecting value">>)
  ELSE Returned(Deserialize(text.doc))

(***************************************************************************)
(* client.py: Result, Client.request and Client.request_async              *)
(***************************************************************************)
FAction == <<"action">>

FData == <<"data">>

FMeta == <<"meta">>

FError == <<"error">>

FOk == <<"ok">>

FStatus == <<"status_code">>

HApiKey == <<"x-api-key">>

HSdk == <<"x-sbc-sdk-client">>

\* the arguments of Client(api_url, api_key)
ApiUrl == Str(<<"https://cloud.singlebaseapis.com/api/">>)

ApiKey == Str(<<"your-api-key">>)

\* a Result that keeps the values it is given, empty or null ones included
ResultInitAsGiven(kw) ==
  [data |-> DictGetOrNone(kw, FData),
   meta |-> DictGetOrNone(kw, FMeta),
   ok |-> IF DictHas(kw, FOk) THEN DictGetOrNone(kw, FOk) ELSE Bool(TRUE),
   error |-> DictGetOrNone(kw, FError),
   status_code |-> DictGetOrNone(kw, FStatus)]

\* Result.__init__(**kw)
ResultInit(kw) ==
  LET data == DictGetOrNone(kw, FData)
      meta == DictGetOrNone(kw, FMeta)
      error == DictGetOrNone(kw, FError)
      status == DictGetOrNone(kw, FStatus)
  IN [data |-> IF Truthy(data) THEN data ELSE Dict(<<>>),
      meta |-> IF Truthy(meta) THEN meta ELSE Dict(<<>>),
      ok |-> IF DictHas(kw, FOk) THEN DictGetOrNone(kw, FOk) ELSE Bool(TRUE),
      error |-> IF Truthy(error) THEN error ELSE None,
      status_code |-> IF Truthy(status) THEN status ELSE Num(200)]

\* ResultOK(data=..., meta=..., status_code=200, ok=True)
ResultOK(data, meta) ==
  ResultInit(<<Entry(FData, data), Entry(FMeta, meta),
               Entry(FStatus, Num(200)), Entry(FOk, Bool(TRUE))>>)

\* ResultError(error=..., status_code=..., ok=False)
ResultError(error, status) ==
  ResultInit(<<Entry(FError, error), Entry(FStatus, Num(status)),
               Entry(FOk, Bool(FALSE))>>)

\* f"EXCEPTION: {e}"
ExceptionText(msg) == Str(<<"EXCEPTION: ">> \o msg)

NoResult ==
  [data |-> None, meta |-> None, ok |-> None, error |-> None,
   status_code |-> None]

\* what the HTTP layer did with a POST: raised, or answered status and text
NoOutcome == [kind |-> "none", msg |-> <<>>, status |-> 0, text |-> EmptyText]

TransportError(msg) ==
  [kind |-> "exception", msg |-> msg, status |-> 0, text |-> EmptyText]

Response(status, text) ==
  [kind |-> "response", msg |-> <<>>, status |-> status, text |-> text]

\* a call of post(url, json=payload, headers=_headers): via 0 is
\* requests.post, via n the ClientSession n
NoSent ==
  [posted |-> FALSE, via |-> 0, url |-> None, json |-> <<>>, headers |-> <<>>]

Post(via, payload, headers) ==
  [posted |-> TRUE, via |-> via, url |-> ApiUrl, json |-> payload,
   headers |-> headers]

\* request: _headers = {**headers, "x-api-key": ..., "x-sbc-sdk-client": ...}
SyncHeaders(headers) ==
  DictUpdate(headers, <<Entry(HApiKey, ApiKey),
                        Entry(HSdk, Str(<<"singlebase-py">>))>>)

\* request, from r.text on: the response into a Result, or an exception
SyncNormalize(status, text) ==
  LET resp == json_loads(text)
  IN IF ~resp.ok THEN resp
     ELSE IF ~IsDict(resp.val)
       THEN Raised("AttributeError", <<"object has no attribute 'get'">>)
     ELSE IF status = 200
       THEN Returned(ResultOK(DictGetOrNone(resp.val[2], FData),
                              DictGetOrNone(resp.val[2], FMeta)))
     ELSE Returned(ResultError(DictGetOrNone(resp.val[2], FError), status))

\* request: the body of the try
SyncTry(payload, headers, outcome) ==
  IF ~DictHas(payload, FAction)
    THEN [r |-> Raised("SinglebaseError", <<"Request missing @action">>),
          sent |-> NoSent]
    ELSE [r |-> IF outcome.kind = "exception"
                  THEN Raised("RequestException", outcome.msg)
                  ELSE SyncNormalize(outcome.status, outcome.text),
          sent |-> Post(0, payload, SyncHeaders(headers))]

\* a handler that catches SinglebaseError alone: any other exception leaves
\* the call
SyncExceptNarrow(r) ==
  IF r.ok THEN [raised |-> FALSE, result |-> r.val]
  ELSE IF r.exc = "SinglebaseError"
    THEN [raised |-> FALSE, result |-> ResultError(ExceptionText(r.at), 500)]
  ELSE [raised |-> TRUE, result |-> NoResult]

\* request: except Exception as e
SyncExcept(r) ==
  IF r.ok THEN [raised |-> FALSE, result |-> r.val]
  ELSE [raised |-> FALSE, result |-> ResultError(ExceptionText(r.at), 500)]

\* Client.request(payload, headers), the HTTP layer doing outcome
request(payload, headers, outcome) ==
  LET try == SyncTry(payload, headers, outcome)
      end == SyncExcept(try.r)
  IN [raised |-> end.raised, result |-> end.result, sent |-> try.sent]

\* request_async: _headers
AsyncHeaders(headers) ==
  DictUpdate(headers, <<Entry(HApiKey, ApiKey),
                        Entry(HSdk, Str(<<"singlebase-py">>))>>)

\* a request_async that takes every 2xx status for a success
AsyncNormalizeAny2xx(status, text) ==
  LET resp == json_loads(text)
  IN IF ~resp.ok THEN resp
     ELSE IF ~IsDict(resp.val)
       THEN Raised("AttributeError", <<"object has no attribute 'get'">>)
     ELSE IF status \in 200..299
       THEN Returned(ResultOK(DictGetOrNone(resp.val[2], FData),
                              DictGetOrNone(resp.val[2], FMeta)))
     ELSE Returned(ResultError(DictGetOrNone(resp.val[2], FError), status))

\* request_async, from response.text() on
AsyncNormalize(status, text) ==
  LET resp == json_loads(text)
  IN IF ~resp.ok THEN resp
     ELSE IF ~IsDict(resp.val)
       THEN Raised("AttributeError", <<"object has no attribute 'get'">>)
     ELSE IF status = 200
       THEN Returned(ResultOK(DictGetOrNone(resp.val[2], FData),
                              DictGetOrNone(resp.val[2], FMeta)))
     ELSE Returned(ResultError(DictGetOrNone(resp.val[2], FError), status))

\* a request_async that makes its session before it looks at the payload
AsyncBeginEager(payload, headers, sess, sesss) ==
  LET made == IF sess = 0 THEN Append(sesss, "open") ELSE sesss
      now == IF sess = 0 THEN Len(made) ELSE sess
  IN IF ~DictHas(payload, FAction)
       THEN [awaiting |-> FALSE,
             r |-> Raised("SinglebaseError", <<"Request missing @action">>),
             sent |-> NoSent, session |-> now, sessions |-> made]
       ELSE [awaiting |-> made[now] = "open",
             r |-> Raised("RuntimeError", <<"Session is closed">>),
             sent |-> Post(now, payload, AsyncHeaders(headers)),
             session |-> now, sessions |-> made]

\* request_async up to its first await: the check of the payload, the headers,
\* the session made when there is none, and the post through the session,
\* which a closed session refuses (RuntimeError: Session is closed)
AsyncBegin(payload, headers, sess, sesss) ==
  IF ~DictHas(payload, FAction)
    THEN [awaiting |-> FALSE,
          r |-> Raised("SinglebaseError", <<"Request missing @action">>),
          sent |-> NoSent, session |-> sess, sessions |-> sesss]
    ELSE LET made == IF sess = 0 THEN Append(sesss, "open") ELSE sesss
             now == IF sess = 0 THEN Len(made) ELSE sess
         IN [awaiting |-> made[now] = "open",
             r |-> Raised("RuntimeError", <<"Session is closed">>),
             sent |-> Post(now, payload, AsyncHeaders(headers)),
             session |-> now, sessions |-> made]

\* request_async after the await: the answer of the HTTP layer
AsyncEnd(outcome) ==
  IF outcome.kind = "exception" THEN Raised("ClientError", outcome.msg)
  ELSE AsyncNormalize(outcome.status, outcome.text)

\* request_async: except Exception as e
AsyncExcept(r) ==
  IF r.ok THEN [raised |-> FALSE, result |-> r.val]
  ELSE [raised |-> FALSE, result |-> ResultError(ExceptionText(r.at), 500)]

\* _make_factory(base): lambda action, payload={}: request_method(
\*   {"action": f"{base}.{action}", **payload}); the payload request gets
make_factory(base, action, payload) ==
  DictUpdate(<<Entry(FAction, Str(<<base, ".", action>>))>>, payload)

\* _make_db_factory: combined_payload of db_operation(action, collection,
\* payload)
make_db_factory(action, collection, payload) ==
  DictUpdate(<<Entry(FAction, Str(<<"db", ".", action>>)),
               Entry(<<"collection">>, collection)>>, payload)

\* Client.__init__: self.db is the db factory, every other facade a factory
\* of its base
facade(base, action, collection, payload) ==
  IF base = "db" THEN make_db_factory(action, collection, payload)
  ELSE make_factory(base, action, payload)

(***************************************************************************)
(* The client before any call (Client.__init__), and the library at rest.  *)
(***************************************************************************)
Tasks == {"t1"}

\* a call: its arguments, what the HTTP layer did, the post it made, whether
\* it raised to its caller, and the Result it returned
Call(st, payload, headers, outcome, sent, raised, result) ==
  [st |-> st, payload |-> payload, headers |-> headers, outcome |-> outcome,
   sent |-> sent, raised |-> raised, result |-> result]

IdleTask == Call("idle", <<>>, <<>>, NoOutcome, NoSent, FALSE, NoResult)

NoCall == Call("idle", <<>>, <<>>, NoOutcome, NoSent, FALSE, NoResult)

ClientInit ==
  /\ session = 0
  /\ sessions = <<>>
  /\ sync = NoCall
  /\ tasks = [t \in Tasks |-> IdleTask]

ClientVars == <<session, sessions, sync, tasks>>

(***************************************************************************)
(* The inputs the library specifications draw from.                        *)
(***************************************************************************)
MaxSessions == 2

MaxFlat == 2

MaxPaths == 2

MaxDicts == 2

KA == <<"a">>

KB == <<"b">>

KC == <<"c">>

KAB == <<"a", Sep, "b">>

KABC == <<"a", Sep, "b", Sep, "c">>

\* the dicts of at most n entries, keys from K (each once), values from V
DictsUpTo(K, V, n) ==
  {d \in UNION {[1..m -> [k : K, v : V]] : m \in 0..n} :
     \A i, j \in DOMAIN d : i # j => d[i].k # d[j].k}

DictsOver(K, V) == DictsUpTo(K, V, 2)

\* the lists of at most one item from V
ListsOver(V) == UNION {[1..n -> V] : n \in 0..1}

Leaves == {Num(1)}

\* values one level deep: a scalar, a dict of scalars, a list of scalars
Shallow(K) ==
  Leaves \cup {Dict(d) : d \in DictsOver(K, Leaves)}
         \cup {List(l) : l \in ListsOver(Leaves)}

\* {"a": [{"b": {"c": 1}}, 1]}: mappings nested in a mapping in a sequence
DeepList ==
  <<Entry(KA, List(<<Dict(<<Entry(KB, Dict(<<Entry(KC, Num(1))>>))>>),
                     Num(1)>>))>>

\* {"a": {"b": {"c": 1}}, "b": [{"a": {}}]}
DeepDict ==
  <<Entry(KA, Dict(<<Entry(KB, Dict(<<Entry(KC, Num(1))>>))>>)),
    Entry(KB, List(<<Dict(<<Entry(KA, Dict(<<>>))>>)>>))>>

\* {"a.b": 1} and {"1": {"a": 1}}: a dotted key, a purely numeric key
DottedKey == <<Entry(KAB, Num(1))>>

NumericKey == <<Entry(<<"1">>, Dict(<<Entry(KA, Num(1))>>))>>

NestedInputs ==
  DictsOver({KA, KB}, Shallow({KA, KB}))
    \cup {DeepList, DeepDict, DottedKey, NumericKey}

(***************************************************************************)
(* SpecFlatten: flatten_dict, then unflatten_dict of what it gave.         *)
(***************************************************************************)
InitFlatten ==
  /\ ClientInit
  /\ arg \in NestedInputs
  /\ mid = <<>>
  /\ out = Returned(<<>>)
  /\ pc = "start"

Flatten ==
  /\ pc = "start"
  /\ mid' = flatten_dict(arg, <<>>)
  /\ pc' = "flat"
  /\ UNCHANGED <<ClientVars, arg, out>>

Unflatten ==
  /\ pc = "flat"
  /\ out' = unflatten_dict(mid)
  /\ pc' = "done"
  /\ UNCHANGED <<ClientVars, arg, mid>>

NextFlatten == Flatten \/ Unflatten

SpecFlatten == InitFlatten /\ [][NextFlatten]_vars

RECURSIVE AllKeys(_)
\* every key of a value, at every depth, through mappings and sequences
AllKeys(v) ==
  IF IsDict(v)
    THEN DictKeys(v[2]) \cup UNION {AllKeys(v[2][i].v) : i \in DOMAIN v[2]}
  ELSE IF IsList(v) THEN UNION {AllKeys(v[2][i]) : i \in DOMAIN v[2]}
  ELSE {}

\* no "." in the key, and not only digits
PlainKey(k) ==
  /\ \A i \in DOMAIN k : k[i] # Sep
  /\ \E i \in DOMAIN k : k[i] \notin Digits

\* C5: for every nested mapping whose keys hold no "." and are not purely
\* numeric, empty nested mappings and sequences of mappings included,
\* unflatten_dict(flatten_dict(x)) == x.
RoundTrip ==
  (pc = "done" /\ \A k \in AllKeys(Dict(arg)) : PlainKey(k))
    => out.ok /\ DictEq(out.val, arg)

(***************************************************************************)
(* SpecUnflatten: unflatten_dict of a flat mapping, entries in any order.  *)
(***************************************************************************)
FlatKeys == {KA, KB, KAB, KABC}

\* 1, [{"a.b": 1}] and {"b": 1}
FlatVals ==
  {Num(1), List(<<Dict(<<Entry(KAB, Num(1))>>)>>), Dict(<<Entry(KB, Num(1))>>)}

FlatInputs == DictsUpTo(FlatKeys, FlatVals, MaxFlat)

InitUnflatten ==
  /\ ClientInit
  /\ arg \in FlatInputs
  /\ mid = <<>>
  /\ out = Returned(<<>>)
  /\ pc = "start"

UnflattenFlat ==
  /\ pc = "start"
  /\ out' = unflatten_dict(arg)
  /\ pc' = "done"
  /\ UNCHANGED <<ClientVars, arg, mid>>

NextUnflatten == UnflattenFlat

SpecUnflatten == InitUnflatten /\ [][NextUnflatten]_vars

\* p is a proper prefix of q, segment by segment
ProperPrefix(p, q) == Len(p) < Len(q) /\ SubSeq(q, 1, Len(p)) = p

\* all but the last segment of a path
Intermediate(path) == SubSeq(path, 1, Len(path) - 1)

RECURSIVE HoldsNonMapping(_, _)
\* walking path into d meets a value that is no mapping
HoldsNonMapping(d, path) ==
  /\ path # <<>>
  /\ DictHas(d, path[1])
  /\ LET c == DictGet(d, path[1])
     IN IF IsDict(c) THEN HoldsNonMapping(c[2], Tail(path)) ELSE TRUE

\* entry j meets, in what the entries before it built, an intermediate segment
\* that already holds a non-mapping value
Blocked(flat, j) ==
  LET before == unflatten_dict(SubSeq(flat, 1, j - 1))
  IN before.ok /\ HoldsNonMapping(before.val, Intermediate(Split(flat[j].k)))

\* C10 as stated: whenever one entry's path runs through another entry's path
\* and that entry's value is no mapping, unflatten_dict fails with the
\* AttributeError naming a path of the flat mapping, whatever the order of the
\* two entries; it never returns a mapping that dropped one of them.
ConflictFailsInAnyOrder ==
  (/\ pc = "done"
   /\ \E i, j \in DOMAIN arg :
        /\ ProperPrefix(Split(arg[i].k), Split(arg[j].k))
        /\ ~IsDict(arg[i].v))
    => ~out.ok /\ out.exc = "AttributeError" /\ out.at \in DictKeys(arg)

\* C10 as amended: unflatten_dict fails, with the AttributeError that names the
\* entry's full dot-path, exactly when an entry is reached while an
\* intermediate segment of its path already holds a non-mapping value, set by
\* the entries before it; the path named is that of the first such entry.
ConflictFailsInOrder ==
  pc = "done" =>
    LET blocked == {j \in DOMAIN arg : Blocked(arg, j)}
    IN IF blocked # {}
         THEN out = Raised("AttributeError",
                           arg[CHOOSE j \in blocked : \A m \in blocked : j <= m].k)
         ELSE out.ok

\* {"a": 1, "a.b.c": ...}: the walk to "a.b.c" meets the 1 held at "a"
WitnessConflict ==
  /\ pc = "done"
  /\ Len(arg) = 2
  /\ arg[1] = Entry(KA, Num(1))
  /\ arg[2].k = KABC
  /\ out = Raised("AttributeError", KABC)

(***************************************************************************)
(* SpecPick: dict_pick of a nested mapping and a list of paths.            *)
(***************************************************************************)
KAA == <<"a", Sep, "a">>

PickPaths == {KA, KB, KC, KAB, KAA}

PickPathLists == UNION {[1..n -> PickPaths] : n \in 0..MaxPaths}

InitPick ==
  /\ ClientInit
  /\ arg \in [ddict : NestedInputs \ {DottedKey},
              keys : PickPathLists,
              check_keys : BOOLEAN]
  /\ mid = <<>>
  /\ out = Returned(<<>>)
  /\ pc = "start"

Pick ==
  /\ pc = "start"
  /\ out' = dict_pick(arg.ddict, arg.keys, arg.check_keys)
  /\ pc' = "done"
  /\ UNCHANGED <<ClientVars, arg, mid>>

NextPick == Pick

SpecPick == InitPick /\ [][NextPick]_vars

\* the flattened entries a list of paths selects: the entry of a path that is
\* a flattened key, else the entries under the path
Selected(fd, keys) ==
  SelectSeq(fd, LAMBDA e :
    \E i \in DOMAIN keys :
      \/ e.k = keys[i]
      \/ ~DictHas(fd, keys[i]) /\ StartsWith(e.k, keys[i] \o <<Sep>>))

\* C7: with check_keys=false, dict_pick gives the unflattening of the selected
\* flattened entries; an ancestor path selects its whole subtree, and the
\* result is the empty mapping when no path matches.
PickSelects ==
  (pc = "done" /\ ~arg.check_keys) =>
    LET sel == Selected(flatten_dict(arg.ddict, <<>>), arg.keys)
        want == unflatten_dict(sel)
    IN /\ out.ok = want.ok
       /\ DictEq(out.val, want.val)
       /\ sel = <<>> => out = Returned(<<>>)

\* ["a"] on {"a": {"a": 1, "b": 1}, ...}: the ancestor path picks both leaves
WitnessPickSubtree ==
  /\ pc = "done"
  /\ ~arg.check_keys
  /\ arg.keys = <<KA>>
  /\ Len(arg.ddict) = 2
  /\ out = Returned(<<Entry(KA, Dict(<<Entry(KA, Num(1)), Entry(KB, Num(1))>>))>>)

\* C8: with check_keys=true, dict_pick fails with the AssertionError (the
\* MissingKeyError), returning no mapping, when some requested path is no
\* flattened key, and gives what check_keys=false gives when every one is.
PickChecksKeys ==
  (pc = "done" /\ arg.check_keys) =>
    LET fd == flatten_dict(arg.ddict, <<>>)
    IN IF \E i \in DOMAIN arg.keys : ~DictHas(fd, arg.keys[i])
         THEN /\ ~out.ok
              /\ out.exc = "AssertionError"
              /\ out.val = <<>>
              /\ out.at \in {arg.keys[i] : i \in DOMAIN arg.keys} \ DictKeys(fd)
         ELSE /\ out.ok
              /\ out = dict_pick(arg.ddict, arg.keys, FALSE)

\* ["a.b", "a"] on {"a": {"b": 1}, ...}: "a.b" is a flattened key, "a" is not
WitnessPickMissing ==
  /\ pc = "done"
  /\ arg.check_keys
  /\ arg.keys = <<KAB, KA>>
  /\ DictHas(flatten_dict(arg.ddict, <<>>), KAB)
  /\ out = Raised("AssertionError", KA)

(***************************************************************************)
(* SpecMerge: dict_merge of up to MaxDicts mappings.                       *)
(***************************************************************************)
\* 1, 2, {"a": 1} and {"a": {"b": 2}, "b": 2}
MergeVals ==
  {Num(1), Num(2), Dict(<<Entry(KA, Num(1))>>),
   Dict(<<Entry(KA, Dict(<<Entry(KB, Num(2))>>)), Entry(KB, Num(2))>>)}

MergeDicts ==
  {<<>>} \cup {<<Entry(k, v)>> : k \in {KA, KB}, v \in MergeVals}
         \cup {<<Entry(KA, v), Entry(KB, w)>> : v \in MergeVals, w \in MergeVals}

MergeInputs == UNION {[1..n -> MergeDicts] : n \in 0..MaxDicts}

InitMerge ==
  /\ ClientInit
  /\ arg \in MergeInputs
  /\ mid = <<>>
  /\ out = Returned(<<>>)
  /\ pc = "start"

Merge ==
  /\ pc = "start"
  /\ out' = Returned(dict_merge(arg))
  /\ pc' = "done"
  /\ UNCHANGED <<ClientVars, arg, mid>>

NextMerge == Merge

SpecMerge == InitMerge /\ [][NextMerge]_vars

RECURSIVE MergeRule(_, _)
\* result has the union of the keys; a key some input maps to a mapping holds
\* the merge of the mapping-valued entries alone, any other key the value of
\* the last input that has it
MergeRule(dicts, result) ==
  /\ DictKeys(result) = UNION {DictKeys(dicts[i]) : i \in DOMAIN dicts}
  /\ \A k \in DictKeys(result) :
       LET has == {i \in DOMAIN dicts : DictHas(dicts[i], k)}
           maps == SelectSeq(dicts, LAMBDA d :
                     DictHas(d, k) /\ IsDict(DictGet(d, k)))
       IN IF maps # <<>>
            THEN /\ IsDict(DictGet(result, k))
                 /\ MergeRule([i \in DOMAIN maps |-> DictGet(maps[i], k)[2]],
                              DictGet(result, k)[2])
            ELSE DictGet(result, k) =
                   DictGet(dicts[CHOOSE i \in has : \A j \in has : j <= i], k)

\* C6: the deep merge rule of dict_merge.
MergeFollowsRule == pc = "done" => out.ok /\ MergeRule(arg, out.val)

\* merge({"a": {"a": 1}, "b": 1}, {"a": 2, "b": 2}): the 2 at "a" is ignored,
\* the 2 at "b" wins
WitnessMerge ==
  /\ pc = "done"
  /\ arg = << <<Entry(KA, Dict(<<Entry(KA, Num(1))>>)), Entry(KB, Num(1))>>,
              <<Entry(KA, Num(2)), Entry(KB, Num(2))>> >>
  /\ DictEq(out.val, <<Entry(KA, Dict(<<Entry(KA, Num(1))>>)), Entry(KB, Num(2))>>)

(***************************************************************************)
(* SpecValid: dict_inspect_valid_keyname of a nested mapping.              *)
(***************************************************************************)
KBad == <<"b", " ">>

KNewline == <<"a", "\n">>

ValidKeys == {KA, KBad, KNewline}

ValidVals ==
  Leaves \cup {Dict(d) : d \in DictsUpTo(ValidKeys, Leaves, 1)}
         \cup {List(<<Dict(d)>>) : d \in DictsUpTo(ValidKeys, Leaves, 1)}
         \cup {List(<<List(<<Dict(<<Entry(KBad, Num(1))>>)>>)>>)}

ValidInputs == DictsOver(ValidKeys, ValidVals)

InitValid ==
  /\ ClientInit
  /\ arg \in ValidInputs
  /\ mid = <<>>
  /\ out = Returned(<<>>)
  /\ pc = "start"

Inspect ==
  /\ pc = "start"
  /\ out' = dict_inspect_valid_keyname(arg)
  /\ pc' = "done"
  /\ UNCHANGED <<ClientVars, arg, mid>>

NextValid == Inspect

SpecValid == InitValid /\ [][NextValid]_vars

\* the identifier grammar ^[A-Za-z_$][A-Za-z0-9_\-$]*$ over the whole key
Identifier(k) ==
  /\ k # <<>>
  /\ k[1] \in HeadChars
  /\ \A i \in 2..Len(k) : k[i] \in TailChars

RECURSIVE NestedKeys(_)
\* the keys of a mapping at every depth: its own, those of its mapping values
\* and those of the mapping elements of its sequence values
NestedKeys(d) ==
  DictKeys(d) \cup UNION {
    LET v == d[i].v
    IN IF IsDict(v) THEN NestedKeys(v[2])
       ELSE IF IsList(v)
         THEN UNION {IF IsDict(v[2][n]) THEN NestedKeys(v[2][n][2]) ELSE {}
                     : n \in DOMAIN v[2]}
       ELSE {}
    : i \in DOMAIN d}

\* C9: dict_inspect_valid_keyname returns true if and only if every key at
\* every depth matches the identifier grammar; otherwise it fails with the
\* NameError (the InvalidKeyNameError) that carries an offending key.
ValidIffIdentifiers ==
  pc = "done" =>
    /\ out.ok <=> \A k \in NestedKeys(arg) : Identifier(k)
    /\ ~out.ok =>
         /\ out.exc = "NameError"
         /\ out.at \in NestedKeys(arg)
         /\ ~Identifier(out.at)

(***************************************************************************)
(* Spec: one client; Client.request, Client.request_async (a coroutine     *)
(* that awaits the answer of the HTTP layer), __aenter__ and __aexit__.    *)
(***************************************************************************)
FCollection == <<"collection">>

\* {"collection": "users"} and {"action": "db.fetch", "collection": "users"}
Payloads ==
  {<<Entry(FCollection, Str(<<"users">>))>>,
   <<Entry(FAction, Str(<<"db", Sep, "fetch">>)),
     Entry(FCollection, Str(<<"users">>))>>}

\* {} and {"x-api-key": "other-key", "x-trace": "t"}
HeaderSets ==
  {<<>>,
   <<Entry(HApiKey, Str(<<"other-key">>)), Entry(<<"x-trace">>, Str(<<"t">>))>>}

\* {"data": {"id": 1}, "meta": {}}
BodyOk ==
  Dict(<<Entry(FData, Dict(<<Entry(<<"id">>, Num(1))>>)),
         Entry(FMeta, Dict(<<>>))>>)

\* {"data": [], "meta": null}
BodyNoRows == Dict(<<Entry(FData, List(<<>>)), Entry(FMeta, None)>>)

\* {"data": {"at": "2022-08-13"}, "meta": {"n": 1}}
BodyDated ==
  Dict(<<Entry(FData, Dict(<<Entry(<<"at">>, Str(IsoDate))>>)),
         Entry(FMeta, Dict(<<Entry(<<"n">>, Num(1))>>))>>)

\* {"error": "not found"}
BodyError == Dict(<<Entry(FError, Str(<<"not found">>))>>)

\* {"error": ""}
BodyBlankError == Dict(<<Entry(FError, Str(<<>>))>>)

\* [] : JSON, but no object
BodyArray == List(<<>>)

Texts ==
  {EmptyText, GarbageText}
    \cup {JsonText(d) : d \in {BodyOk, BodyNoRows, BodyDated, BodyError,
                               BodyBlankError, BodyArray}}

\* the bodies a server sends with an error status
ErrorTexts == {EmptyText, JsonText(BodyError), JsonText(BodyBlankError)}

Outcomes ==
  {TransportError(<<"Connection refused">>)}
    \cup {Response(200, text) : text \in Texts}
    \cup {Response(404, text) : text \in ErrorTexts}
    \cup {Response(201, JsonText(BodyOk))}

\* the outcomes a call with this payload can meet: none without an action
OutcomesFor(payload) ==
  IF DictHas(payload, FAction) THEN Outcomes ELSE {NoOutcome}

LibIdle ==
  /\ arg = <<>>
  /\ mid = <<>>
  /\ out = Returned(<<>>)
  /\ pc = "idle"

LibVars == <<arg, mid, out, pc>>

Init == ClientInit /\ LibIdle

\* result = client.request(payload, headers)
Request ==
  \E payload \in Payloads, headers \in HeaderSets :
    \E outcome \in OutcomesFor(payload) :
      LET c == request(payload, headers, outcome)
      IN /\ sync' = Call("done", payload, headers, outcome, c.sent, c.raised,
                         c.result)
         /\ UNCHANGED <<session, sessions, tasks, LibVars>>

\* await client.request_async(payload, headers), up to the await of the post
AsyncStart(t) ==
  /\ tasks[t].st # "awaiting"
  /\ \E payload \in Payloads, headers \in HeaderSets :
       LET b == AsyncBegin(payload, headers, session, sessions)
           e == AsyncExcept(b.r)
       IN /\ Len(b.sessions) <= MaxSessions
          /\ session' = b.session
          /\ sessions' = b.sessions
          /\ tasks' = [tasks EXCEPT ![t] =
               IF b.awaiting
                 THEN Call("awaiting", payload, headers, NoOutcome, b.sent,
                           FALSE, NoResult)
                 ELSE Call("done", payload, headers,
                           IF b.sent.posted THEN TransportError(b.r.at)
                           ELSE NoOutcome,
                           b.sent, e.raised, e.result)]
  /\ UNCHANGED <<sync, LibVars>>

\* the HTTP layer answers, and request_async returns
AsyncFinish(t) ==
  /\ tasks[t].st = "awaiting"
  /\ \E outcome \in Outcomes :
       LET e == AsyncExcept(AsyncEnd(outcome))
       IN tasks' = [tasks EXCEPT ![t] =
            Call("done", tasks[t].payload, tasks[t].headers, outcome,
                 tasks[t].sent, e.raised, e.result)]
  /\ UNCHANGED <<session, sessions, sync, LibVars>>

\* __aenter__: self._session = aiohttp.ClientSession()
AEnter ==
  /\ Len(sessions) < MaxSessions
  /\ sessions' = Append(sessions, "open")
  /\ session' = Len(sessions) + 1
  /\ UNCHANGED <<sync, tasks, LibVars>>

\* __aexit__: if self._session: await self._session.close()
AExit ==
  /\ sessions' = IF session # 0 THEN [sessions EXCEPT ![session] = "closed"]
                 ELSE sessions
  /\ UNCHANGED <<session, sync, tasks, LibVars>>

Next ==
  \/ Request
  \/ \E t \in Tasks : AsyncStart(t)
  \/ \E t \in Tasks : AsyncFinish(t)
  \/ AEnter
  \/ AExit

Spec == Init /\ [][Next]_vars

\* the calls that have returned
DoneCalls ==
  {c \in {sync} \cup {tasks[t] : t \in Tasks} : c.st = "done"}

HasAction(c) == DictHas(c.payload, FAction)

\* the failure Result of a caught exception
IsExceptionResult(r) ==
  /\ r.ok = Bool(FALSE)
  /\ r.status_code = Num(500)
  /\ IsStr(r.error)
  /\ StartsWith(r.error[2], <<"EXCEPTION: ">>)

\* the dispatch meets an exception: no action, a transport failure, an empty
\* or unparsable body, or a body that is no JSON object
DispatchFails(c) ==
  \/ ~HasAction(c)
  \/ c.outcome.kind = "exception"
  \/ /\ c.outcome.kind = "response"
     /\ \/ c.outcome.text.form # "json"
        \/ ~IsDict(c.outcome.text.doc)

MissingActionNoPost ==
  [][/\ (sync' # sync /\ ~HasAction(sync'))
          => /\ ~sync'.sent.posted
             /\ sync'.result.error = ExceptionText(<<"Request missing @action">>)
             /\ sessions' = sessions /\ session' = session
     /\ \A t \in Tasks :
          (tasks'[t] # tasks[t] /\ ~HasAction(tasks'[t]))
            => /\ tasks'[t].st = "done"
               /\ ~tasks'[t].sent.posted
               /\ tasks'[t].result.error
                    = ExceptionText(<<"Request missing @action">>)
               /\ sessions' = sessions /\ session' = session]_vars

\* request_async of a payload without action has returned, no session made
WitnessMissingAction ==
  /\ tasks["t1"].st = "done"
  /\ tasks["t1"].payload = <<Entry(FCollection, Str(<<"users">>))>>
  /\ ~tasks["t1"].sent.posted
  /\ sessions = <<>>

\* the calls that got an answer of the server to a payload with an action
AnsweredCalls ==
  {c \in DoneCalls : HasAction(c) /\ c.outcome.kind = "response"}

\* the body of the answer is a JSON object
HasObjectBody(c) ==
  c.outcome.text.form = "json" /\ IsDict(c.outcome.text.doc)

\* a field of the JSON object as it was sent, null when it is absent
BodyField(c, f) == DictGetOrNone(c.outcome.text.doc[2], f)

Held(v, default) ==
  IF Truthy(v) THEN Deserialize(Dict(<<Entry(<<"v">>, v)>>))[2][1].v
  ELSE default

SamePost(a, b) ==
  /\ a.posted = b.posted
  /\ a.url = b.url
  /\ ValEq(Dict(a.json), Dict(b.json))
  /\ ValEq(Dict(a.headers), Dict(b.headers))

SameResult(a, b) ==
  /\ ValEq(a.data, b.data)
  /\ ValEq(a.meta, b.meta)
  /\ a.ok = b.ok
  /\ a.error = b.error
  /\ a.status_code = b.status_code

\* C4: for the same payload, headers and outcome of the HTTP layer,
\* request_async returns a Result with the data, meta, ok, error and
\* status_code that request returns, and posts the same JSON body and headers.
VariantsAgree ==
  \A t \in Tasks :
    tasks[t].st = "done"
      => LET a == tasks[t]
             b == request(a.payload, a.headers, a.outcome)
         IN /\ a.raised = b.raised
            /\ SameResult(a.result, b.result)
            /\ SamePost(a.sent, b.sent)
            /\ (sync.st = "done" /\ sync.payload = a.payload
                  /\ sync.headers = a.headers /\ sync.outcome = a.outcome)
                 => /\ SameResult(a.result, sync.result)
                    /\ SamePost(a.sent, sync.sent)

\* both variants were called with the same arguments and got 201 with the
\* body of a success
WitnessVariants ==
  /\ sync.st = "done"
  /\ tasks["t1"].st = "done"
  /\ sync.outcome = Response(201, JsonText(BodyOk))
  /\ tasks["t1"].outcome = sync.outcome
  /\ tasks["t1"].payload = sync.payload
  /\ tasks["t1"].headers = sync.headers
  /\ sync.headers # <<>>
  /\ sync.sent.posted /\ tasks["t1"].sent.posted
  /\ sync.result.status_code = Num(201)

(***************************************************************************)
(* SpecFacade: one call of a facade of the client, client.<base>(...) or   *)
(* client.<base>_async(...), and the request it dispatches.                *)
(***************************************************************************)
Bases == {"auth", "db", "storage", "genai", "vectordb"}

FacadeActions == {"fetch", "insert"}

\* the extra fields p: {}, {"limit": 1}, {"action": "auth.signout"},
\* {"collection": "admins"}, and all three fields together
FacadePayloads ==
  {<<>>,
   <<Entry(<<"limit">>, Num(1))>>,
   <<Entry(FAction, Str(<<"auth", Sep, "signout">>))>>,
   <<Entry(FCollection, Str(<<"admins">>))>>,
   <<Entry(<<"limit">>, Num(1)),
     Entry(FAction, Str(<<"auth", Sep, "signout">>)),
     Entry(FCollection, Str(<<"admins">>))>>}

\* the calls: db takes a collection, the other facades do not
FacadeCalls ==
  [base : Bases \ {"db"}, action : FacadeActions, collection : {None},
   payload : FacadePayloads, is_async : BOOLEAN]
    \cup [base : {"db"}, action : FacadeActions,
          collection : {Str(<<"users">>)},
          payload : FacadePayloads, is_async : BOOLEAN]

InitFacade ==
  /\ ClientInit
  /\ arg \in FacadeCalls
  /\ mid = <<>>
  /\ out = Returned(<<>>)
  /\ pc = "call"

\* client.<base>(action, ...): request_method is self.request
FacadeSync ==
  /\ pc = "call"
  /\ ~arg.is_async
  /\ LET payload == facade(arg.base, arg.action, arg.collection, arg.payload)
     IN \E outcome \in OutcomesFor(payload) :
          LET c == request(payload, <<>>, outcome)
          IN sync' = Call("done", payload, <<>>, outcome, c.sent, c.raised,
                          c.result)
  /\ pc' = "dispatched"
  /\ UNCHANGED <<session, sessions, tasks, arg, mid, out>>

\* await client.<base>_async(action, ...): request_method is
\* self.request_async, here up to the await of the post
FacadeAsync ==
  /\ pc = "call"
  /\ arg.is_async
  /\ LET payload == facade(arg.base, arg.action, arg.collection, arg.payload)
         b == AsyncBegin(payload, <<>>, session, sessions)
         e == AsyncExcept(b.r)
     IN /\ session' = b.session
        /\ sessions' = b.sessions
        /\ tasks' = [tasks EXCEPT !["t1"] =
             IF b.awaiting
               THEN Call("awaiting", payload, <<>>, NoOutcome, b.sent, FALSE,
                         NoResult)
               ELSE Call("done", payload, <<>>,
                         IF b.sent.posted THEN TransportError(b.r.at)
                         ELSE NoOutcome,
                         b.sent, e.raised, e.result)]
  /\ pc' = "dispatched"
  /\ UNCHANGED <<sync, arg, mid, out>>

NextFacade ==
  \/ FacadeSync
  \/ FacadeAsync
  \/ \E t \in Tasks : AsyncFinish(t)

SpecFacade == InitFacade /\ [][NextFacade]_vars

\* the requests the facade call has dispatched so far
Dispatched == {c \in {sync} \cup {tasks[t] : t \in Tasks} : c.st # "idle"}

\* the fields of p that are neither `action` nor `collection`
ExtraFields(p) == DictKeys(p) \ {FAction, FCollection}

\* C11: a facade call with action a and extra fields p dispatches exactly one
\* request whose payload has action == "<base>." + a, for db collection equal
\* to the collection argument, and every field of p, for every p including
\* one that itself contains an `action` or `collection` field.
FacadePayloadShape ==
  pc = "dispatched"
    => /\ Cardinality(Dispatched) = 1
       /\ \A c \in Dispatched :
            /\ c.sent.posted
            /\ c.sent.json = c.payload
            /\ DictGetOrNone(c.payload, FAction)
                 = Str(<<arg.base, Sep, arg.action>>)
            /\ arg.base = "db"
                 => DictGetOrNone(c.payload, FCollection) = arg.collection
            /\ \A k \in ExtraFields(arg.payload) :
                 /\ DictHas(c.payload, k)
                 /\ DictGet(c.payload, k) = DictGet(arg.payload, k)

\* the sessions made so far that are open
OpenSessions == {i \in DOMAIN sessions : sessions[i] = "open"}

\* C12: all request_async calls of a client, within a scoped session or with
\* the session made lazily, post through one and the same session; at most one
\* session is created per client and none while another is still open.
SessionReuse ==
  [][/\ Len(sessions') <= 1
     /\ Len(sessions') > Len(sessions) => OpenSessions = {}
     /\ \A t, u \in Tasks :
          (tasks[t].sent.posted /\ tasks'[u].sent.posted)
            => tasks'[u].sent.via = tasks[t].sent.via]_vars

\* C13: after any sequence of __aenter__, request_async and __aexit__,
\* whenever request_async issues a POST the session it uses is open: a request
\* made after the scoped session has exited does not go through the closed
\* session.
PostsThroughOpenSession ==
  [][\A t \in Tasks :
       (tasks[t].st # "awaiting" /\ tasks'[t] # tasks[t]
          /\ tasks'[t].sent.posted)
         => sessions'[tasks'[t].sent.via] = "open"]_vars

====
